---------------------------- MODULE Spec2Model ----------------------------
(* The notebook "4.Create_Workflow_through_CLI": two cells, each of which   *)
(* hands a literal JSON job specification to `databricks jobs create`.      *)
(* The model holds the two documents as they are written, the submission of *)
(* a document (decode, re-encode, store), and the run of a stored job under *)
(* the depends_on / run_if fields of its definition.                        *)
EXTENDS Naturals, Integers, Sequences, FiniteSets, TLC

(***************************************************************************)
(* Bounds                                                                  *)
(***************************************************************************)
\* how many times the cells of the notebook are executed in one behaviour
MaxJobs == 2

(***************************************************************************)
(* JSON text.  A node is [t, s, c]: t the kind ("str", "obj", "arr"), s the *)
(* string of a leaf, c the children in the order written, each a pair      *)
(* <<member name, node>> (the name is "" for the elements of an array).    *)
(* An object keeps every member that is written, also a repeated name.     *)
(***************************************************************************)
Str(s) == [t |-> "str", s |-> s, c |-> << >>]

Obj(members) == [t |-> "obj", s |-> "", c |-> members]

Arr(elems) == [t |-> "arr", s |-> "", c |-> [i \in 1..Len(elems) |-> <<"", elems[i]>>]]

(***************************************************************************)
(* The concrete job specification (first cell)                             *)
(***************************************************************************)
\* variant: the first task is made to wait for the last one
ConcreteCreateTables_DependsOnLast ==
    Obj(<< <<"task_key", Str("Create_Tables")>>,
           <<"depends_on", Arr(<< Obj(<< <<"task_key", Str("Query_Fact_Sales")>> >>) >>)>>,
           <<"run_if", Str("ALL_SUCCESS")>>,
           <<"sql_task", Obj(<<
               <<"file", Obj(<<
                   <<"path", Str("Demos and Tutorials/L100-200 Tutorials/1.Create_Tables.sql")>>,
                   <<"source", Str("GIT")>> >>)>>,
               <<"warehouse_id", Str("d1184b8c2a8a87eb")>> >>)>> >>)

ConcreteCreateTables ==
    Obj(<< <<"task_key", Str("Create_Tables")>>,
           <<"run_if", Str("ALL_SUCCESS")>>,
           <<"sql_task", Obj(<<
               <<"file", Obj(<<
                   <<"path", Str("Demos and Tutorials/L100-200 Tutorials/1.Create_Tables.sql")>>,
                   <<"source", Str("GIT")>> >>)>>,
               <<"warehouse_id", Str("d1184b8c2a8a87eb")>> >>)>> >>)

\* variant: the depends_on of Load_Data is left out
ConcreteLoadData_NoDependsOn ==
    Obj(<< <<"task_key", Str("Load_Data")>>,
           <<"run_if", Str("ALL_SUCCESS")>>,
           <<"sql_task", Obj(<<
               <<"file", Obj(<<
                   <<"path", Str("/Repos/saurabh.shukla@databricks.com/dbsql_sme/Demos and Tutorials/L100-200 Tutorials/2.Load_Data.sql")>>,
                   <<"source", Str("WORKSPACE")>> >>)>>,
               <<"warehouse_id", Str("d1184b8c2a8a87eb")>> >>)>> >>)

ConcreteLoadData ==
    Obj(<< <<"task_key", Str("Load_Data")>>,
           <<"depends_on", Arr(<< Obj(<< <<"task_key", Str("Create_Tables")>> >>) >>)>>,
           <<"run_if", Str("ALL_SUCCESS")>>,
           <<"sql_task", Obj(<<
               <<"file", Obj(<<
                   <<"path", Str("/Repos/saurabh.shukla@databricks.com/dbsql_sme/Demos and Tutorials/L100-200 Tutorials/2.Load_Data.sql")>>,
                   <<"source", Str("WORKSPACE")>> >>)>>,
               <<"warehouse_id", Str("d1184b8c2a8a87eb")>> >>)>> >>)

\* variant: an unknown source
ConcreteQueryFactSales_BadSource ==
    Obj(<< <<"task_key", Str("Query_Fact_Sales")>>,
           <<"depends_on", Arr(<< Obj(<< <<"task_key", Str("Load_Data")>> >>) >>)>>,
           <<"run_if", Str("ALL_SUCCESS")>>,
           <<"sql_task", Obj(<<
               <<"file", Obj(<<
                   <<"path", Str("/Repos/saurabh.shukla@databricks.com/dbsql_sme/Demos and Tutorials/L100-200 Tutorials/3.Query_Fact_Sales.sql")>>,
                   <<"source", Str("REPO")>> >>)>>,
               <<"warehouse_id", Str("d1184b8c2a8a87eb")>> >>)>> >>)

\* variant: two dependencies written as two depends_on members
ConcreteQueryFactSales_TwoDependsOn ==
    Obj(<< <<"task_key", Str("Query_Fact_Sales")>>,
           <<"depends_on", Arr(<< Obj(<< <<"task_key", Str("Load_Data")>> >>) >>)>>,
           <<"depends_on", Arr(<< Obj(<< <<"task_key", Str("Create_Tables")>> >>) >>)>>,
           <<"run_if", Str("ALL_SUCCESS")>>,
           <<"sql_task", Obj(<<
               <<"file", Obj(<<
                   <<"path", Str("/Repos/saurabh.shukla@databricks.com/dbsql_sme/Demos and Tutorials/L100-200 Tutorials/3.Query_Fact_Sales.sql")>>,
                   <<"source", Str("WORKSPACE")>> >>)>>,
               <<"warehouse_id", Str("d1184b8c2a8a87eb")>> >>)>> >>)

\* variant: the dependency names the task itself
ConcreteQueryFactSales_SelfDependent ==
    Obj(<< <<"task_key", Str("Query_Fact_Sales")>>,
           <<"depends_on", Arr(<< Obj(<< <<"task_key", Str("Query_Fact_Sales")>> >>) >>)>>,
           <<"run_if", Str("ALL_SUCCESS")>>,
           <<"sql_task", Obj(<<
               <<"file", Obj(<<
                   <<"path", Str("/Repos/saurabh.shukla@databricks.com/dbsql_sme/Demos and Tutorials/L100-200 Tutorials/3.Query_Fact_Sales.sql")>>,
                   <<"source", Str("WORKSPACE")>> >>)>>,
               <<"warehouse_id", Str("d1184b8c2a8a87eb")>> >>)>> >>)

ConcreteQueryFactSales ==
    Obj(<< <<"task_key", Str("Query_Fact_Sales")>>,
           <<"depends_on", Arr(<< Obj(<< <<"task_key", Str("Load_Data")>> >>) >>)>>,
           <<"run_if", Str("ALL_SUCCESS")>>,
           <<"sql_task", Obj(<<
               <<"file", Obj(<<
                   <<"path", Str("/Repos/saurabh.shukla@databricks.com/dbsql_sme/Demos and Tutorials/L100-200 Tutorials/3.Query_Fact_Sales.sql")>>,
                   <<"source", Str("WORKSPACE")>> >>)>>,
               <<"warehouse_id", Str("d1184b8c2a8a87eb")>> >>)>> >>)

ConcreteTasks == Arr(<< ConcreteCreateTables, ConcreteLoadData, ConcreteQueryFactSales >>)

ConcreteGitSource ==
    Obj(<< <<"git_url", Str("https://github.com/saurabhshukla-db/dbsql_sme.git")>>,
           <<"git_provider", Str("gitHub")>>,
           <<"git_branch", Str("feature_branch_sqlfiles")>> >>)

ConcreteRunAs == Obj(<< <<"user_name", Str("saurabh.shukla@databricks.com")>> >>)

\* variant: the git_source record is left out
ConcreteJob_NoGitSource ==
    Obj(<< <<"name", Str("Orchestrating_SQL_Files_on_DBSQL_WAREHOUSE")>>,
           <<"tasks", ConcreteTasks>>,
           <<"run_as", ConcreteRunAs>> >>)

ConcreteJob ==
    Obj(<< <<"name", Str("Orchestrating_SQL_Files_on_DBSQL_WAREHOUSE")>>,
           <<"tasks", ConcreteTasks>>,
           <<"git_source", ConcreteGitSource>>,
           <<"run_as", ConcreteRunAs>> >>)

(***************************************************************************)
(* The templated job specification (second cell)                           *)
(***************************************************************************)
TemplatedCreateTables ==
    Obj(<< <<"task_key", Str("Create_Tables")>>,
           <<"run_if", Str("ALL_SUCCESS")>>,
           <<"sql_task", Obj(<<
               <<"file", Obj(<<
                   <<"path", Str("<GITPATH>/1.Create_Tables.sql")>>,
                   <<"source", Str("GIT")>> >>)>>,
               <<"warehouse_id", Str("<DBSQL warehouse_id>")>> >>)>> >>)

\* variant: a misspelt dependency
TemplatedLoadData_Typo ==
    Obj(<< <<"task_key", Str("Load_Data")>>,
           <<"depends_on", Arr(<< Obj(<< <<"task_key", Str("Create_Table")>> >>) >>)>>,
           <<"run_if", Str("ALL_SUCCESS")>>,
           <<"sql_task", Obj(<<
               <<"file", Obj(<<
                   <<"path", Str("<GITPATH>/2.Load_Data.sql")>>,
                   <<"source", Str("WORKSPACE")>> >>)>>,
               <<"warehouse_id", Str("<DBSQL warehouse_id>")>> >>)>> >>)

\* variant: the source follows the <GITPATH> of the path
TemplatedLoadData_GitSource ==
    Obj(<< <<"task_key", Str("Load_Data")>>,
           <<"depends_on", Arr(<< Obj(<< <<"task_key", Str("Create_Tables")>> >>) >>)>>,
           <<"run_if", Str("ALL_SUCCESS")>>,
           <<"sql_task", Obj(<<
               <<"file", Obj(<<
                   <<"path", Str("<GITPATH>/2.Load_Data.sql")>>,
                   <<"source", Str("GIT")>> >>)>>,
               <<"warehouse_id", Str("<DBSQL warehouse_id>")>> >>)>> >>)

TemplatedLoadData ==
    Obj(<< <<"task_key", Str("Load_Data")>>,
           <<"depends_on", Arr(<< Obj(<< <<"task_key", Str("Create_Tables")>> >>) >>)>>,
           <<"run_if", Str("ALL_SUCCESS")>>,
           <<"sql_task", Obj(<<
               <<"file", Obj(<<
                   <<"path", Str("<GITPATH>/2.Load_Data.sql")>>,
                   <<"source", Str("WORKSPACE")>> >>)>>,
               <<"warehouse_id", Str("<DBSQL warehouse_id>")>> >>)>> >>)

\* variant: the task copied from Load_Data keeps its key
TemplatedQueryFactSales_DupKey ==
    Obj(<< <<"task_key", Str("Load_Data")>>,
           <<"depends_on", Arr(<< Obj(<< <<"task_key", Str("Load_Data")>> >>) >>)>>,
           <<"run_if", Str("ALL_SUCCESS")>>,
           <<"sql_task", Obj(<<
               <<"file", Obj(<<
                   <<"path", Str("<GITPATH>/3.Query_Fact_Sales.sql")>>,
                   <<"source", Str("WORKSPACE")>> >>)>>,
               <<"warehouse_id", Str("<DBSQL warehouse_id>")>> >>)>> >>)

TemplatedQueryFactSales ==
    Obj(<< <<"task_key", Str("Query_Fact_Sales")>>,
           <<"depends_on", Arr(<< Obj(<< <<"task_key", Str("Load_Data")>> >>) >>)>>,
           <<"run_if", Str("ALL_SUCCESS")>>,
           <<"sql_task", Obj(<<
               <<"file", Obj(<<
                   <<"path", Str("<GITPATH>/3.Query_Fact_Sales.sql")>>,
                   <<"source", Str("WORKSPACE")>> >>)>>,
               <<"warehouse_id", Str("<DBSQL warehouse_id>")>> >>)>> >>)

TemplatedTasks == Arr(<< TemplatedCreateTables, TemplatedLoadData, TemplatedQueryFactSales >>)

TemplatedGitSource ==
    Obj(<< <<"git_url", Str("https://github.com/<GITUSERNAME>/dbsql_sme.git")>>,
           <<"git_provider", Str("gitHub")>>,
           <<"git_branch", Str("feature_branch_sqlfiles")>> >>)

TemplatedRunAs == Obj(<< <<"user_name", Str("<username>@<domain>.com")>> >>)

TemplatedJob ==
    Obj(<< <<"name", Str("Orchestrating_SQL_Files_on_DBSQL_WAREHOUSE")>>,
           <<"tasks", TemplatedTasks>>,
           <<"git_source", TemplatedGitSource>>,
           <<"run_as", TemplatedRunAs>> >>)

\* the two cells of the notebook
Docs == {"concrete", "templated"}

\* the --json argument of a cell
DocText(d) == IF d = "concrete" THEN ConcreteJob ELSE TemplatedJob

(***************************************************************************)
(* Reading a document as it is written                                     *)
(***************************************************************************)
RECURSIVE Concat(_)
Concat(ss) == IF Len(ss) = 0 THEN << >> ELSE Head(ss) \o Concat(Tail(ss))

Range(s) == {s[i] : i \in DOMAIN s}

\* the values of every member of `node` that is written with `name`
Member(node, name) ==
    LET sel == SelectSeq(node.c, LAMBDA p : p[1] = name)
    IN  [i \in 1..Len(sel) |-> sel[i][2]]

\* the elements of an array node, in order
Elems(node) == [i \in 1..Len(node.c) |-> node.c[i][2]]

\* one step down a path: the `name` members of each of `nodes`
Sub(nodes, name) == Concat([i \in 1..Len(nodes) |-> Member(nodes[i], name)])

\* the elements of each array of `nodes`
Each(nodes) == Concat([i \in 1..Len(nodes) |-> Elems(nodes[i])])

Leaves(nodes) == {n.s : n \in Range(nodes)}

TasksOf(doc) == Each(Member(doc, "tasks"))

TaskKeysOf(task) == Leaves(Member(task, "task_key"))

DependsOnOf(task) == Leaves(Sub(Each(Member(task, "depends_on")), "task_key"))

RunIfOf(task) == Leaves(Member(task, "run_if"))

SourceOf(task) == Leaves(Sub(Sub(Member(task, "sql_task"), "file"), "source"))

\* the task graph of a document: keys, depends_on edges <<task, dependency>>,
\* and the run_if of each key
Keys(doc) == UNION {TaskKeysOf(t) : t \in Range(TasksOf(doc))}

Edges(doc) == UNION {TaskKeysOf(t) \X DependsOnOf(t) : t \in Range(TasksOf(doc))}

RunIfs(doc) == UNION {TaskKeysOf(t) \X RunIfOf(t) : t \in Range(TasksOf(doc))}

Graph(doc) == [keys |-> Keys(doc), edges |-> Edges(doc), run_if |-> RunIfs(doc)]

(***************************************************************************)
(* JSON decoding and encoding.  A decoded object is a map from member name *)
(* to value: a name written twice keeps its last value, and the order of   *)
(* the members is not kept.  A decoded node is [t, s, f]: f maps the names *)
(* of an object, or the indices of an array, to the decoded children.      *)
(***************************************************************************)
Names(node) == {node.c[i][1] : i \in DOMAIN node.c}

LastNamed(node, name) ==
    LET i == CHOOSE k \in DOMAIN node.c :
                 /\ node.c[k][1] = name
                 /\ \A m \in DOMAIN node.c : node.c[m][1] = name => m <= k
    IN  node.c[i][2]

RECURSIVE Parse(_)
Parse(node) ==
    [t |-> node.t, s |-> node.s,
     f |-> IF node.t = "obj"
           THEN [n \in Names(node) |-> Parse(LastNamed(node, n))]
           ELSE [i \in 1..Len(node.c) |-> Parse(node.c[i][2])]]

RECURSIVE SeqOf(_)
SeqOf(S) == IF S = {} THEN << >>
            ELSE LET x == CHOOSE y \in S : TRUE IN <<x>> \o SeqOf(S \ {x})

RECURSIVE Serialize(_)
Serialize(val) ==
    [t |-> val.t, s |-> val.s,
     c |-> IF val.t = "obj"
           THEN LET order == SeqOf(DOMAIN val.f)
                IN  [i \in 1..Len(order) |-> <<order[i], Serialize(val.f[order[i]])>>]
           ELSE [i \in 1..Len(val.f) |-> <<"", Serialize(val.f[i])>>]]

(***************************************************************************)
(* State: the job definitions held by the service, in the order created.   *)
(* jobs[id] = [doc, def, graph, run, status, starts, order]                *)
(*   doc    the cell that created the job                                  *)
(*   def    the stored definition                                          *)
(*   graph  the task graph the service reads from the stored definition    *)
(*   run    "idle" until a run of the job is triggered, then "active"      *)
(*   status the state of each task of the run                              *)
(*   starts how many times each task was started                           *)
(*   order  the tasks that succeeded, in the order they did                *)
(***************************************************************************)
VARIABLES jobs

vars == << jobs >>

JobIds == 1..Len(jobs)

Terminal == {"succeeded", "failed", "skipped"}

Init == jobs = << >>

\* databricks jobs create --json '<document>': the document is decoded,
\* re-encoded as the request, and stored as a new job under the next id
Submit(d) ==
    /\ Len(jobs) < MaxJobs
    /\ LET def == Serialize(Parse(DocText(d)))
       IN  jobs' = Append(jobs, [doc    |-> d,
                                 def    |-> def,
                                 graph  |-> Graph(def),
                                 run    |-> "idle",
                                 status |-> [k \in Keys(def) |-> "pending"],
                                 starts |-> [k \in Keys(def) |-> 0],
                                 order  |-> << >>])

\* a run of a stored job is triggered
TriggerRun(j) ==
    /\ jobs[j].run = "idle"
    /\ jobs' = [jobs EXCEPT ![j].run = "active"]

DependsOn(graph, k) == {e[2] : e \in {x \in graph.edges : x[1] = k}}

RunIf(graph, k) == {e[2] : e \in {x \in graph.run_if : x[1] = k}}

\* run_if ALL_SUCCESS: run only if all dependencies succeeded
RunIfSatisfied(job, k) ==
    /\ RunIf(job.graph, k) = {"ALL_SUCCESS"}
    /\ \A dep \in DependsOn(job.graph, k) : job.status[dep] = "succeeded"

\* run_if ALL_SUCCESS can no longer be satisfied
RunIfExcluded(job, k) ==
    /\ RunIf(job.graph, k) = {"ALL_SUCCESS"}
    /\ \E dep \in DependsOn(job.graph, k) : job.status[dep] \in {"failed", "skipped"}

StartTask(j, k) ==
    /\ jobs[j].run = "active"
    /\ jobs[j].status[k] = "pending"
    /\ RunIfSatisfied(jobs[j], k)
    /\ jobs' = [jobs EXCEPT ![j].status[k] = "running",
                            ![j].starts[k] = @ + 1]

SkipTask(j, k) ==
    /\ jobs[j].run = "active"
    /\ jobs[j].status[k] = "pending"
    /\ RunIfExcluded(jobs[j], k)
    /\ jobs' = [jobs EXCEPT ![j].status[k] = "skipped"]

Succeed(j, k) ==
    /\ jobs[j].status[k] = "running"
    /\ jobs' = [jobs EXCEPT ![j].status[k] = "succeeded",
                            ![j].order = Append(@, k)]

Fail(j, k) ==
    /\ jobs[j].status[k] = "running"
    /\ jobs' = [jobs EXCEPT ![j].status[k] = "failed"]

Next ==
    \/ \E d \in Docs : Submit(d)
    \/ \E j \in JobIds : TriggerRun(j)
    \/ \E j \in JobIds : \E k \in DOMAIN jobs[j].status : StartTask(j, k)
    \/ \E j \in JobIds : \E k \in DOMAIN jobs[j].status : SkipTask(j, k)
    \/ \E j \in JobIds : \E k \in DOMAIN jobs[j].status : Succeed(j, k)
    \/ \E j \in JobIds : \E k \in DOMAIN jobs[j].status : Fail(j, k)

Spec == Init /\ [][Next]_vars

\* a step of the run of job j
JobStep(j) ==
    /\ j \in JobIds
    /\ \E k \in DOMAIN jobs[j].status :
           StartTask(j, k) \/ SkipTask(j, k) \/ Succeed(j, k) \/ Fail(j, k)

\* the service keeps scheduling every triggered run, and a started task ends
FairSpec == Spec /\ \A j \in 1..MaxJobs : WF_vars(JobStep(j))

(***************************************************************************)
(* Graph helpers used by the properties                                    *)
(***************************************************************************)
RECURSIVE TransitiveClosure(_)
TransitiveClosure(E) ==
    LET step == E \cup {<<p[1][1], p[2][2]>> : p \in {q \in E \X E : q[1][2] = q[2][1]}}
    IN  IF step = E THEN E ELSE TransitiveClosure(step)

Acyclic(E) == \A p \in TransitiveClosure(E) : p[1] # p[2]

Chain == << "Create_Tables", "Load_Data", "Query_Fact_Sales" >>

ChainEdges == { <<"Load_Data", "Create_Tables">>, <<"Query_Fact_Sales", "Load_Data">> }

\* the task keys of a document in the order its tasks are written
KeySeq(doc) == [i \in 1..Len(TasksOf(doc)) |-> TaskKeysOf(TasksOf(doc)[i])]

\* a job created from cell d is held by the service
Created(d) == \E j \in JobIds : jobs[j].doc = d

(***************************************************************************)
(* C1: in both job specifications the depends_on graph over the task keys  *)
(* is acyclic, and in the concrete one it is exactly the chain             *)
(* Create_Tables -> Load_Data -> Query_Fact_Sales: Load_Data depends only  *)
(* on Create_Tables, Query_Fact_Sales only on Load_Data, Create_Tables on  *)
(* nothing.                                                                *)
(***************************************************************************)
C1_AcyclicChain ==
    \A j \in JobIds :
        LET doc == DocText(jobs[j].doc)
        IN  /\ Acyclic(Edges(doc))
            /\ jobs[j].doc = "concrete" =>
                   /\ Keys(doc) = Range(Chain)
                   /\ Edges(doc) = ChainEdges
                   /\ DependsOnOf(TasksOf(doc)[1]) = {}
                   /\ DependsOnOf(TasksOf(doc)[2]) = {"Create_Tables"}
                   /\ DependsOnOf(TasksOf(doc)[3]) = {"Load_Data"}

\* both documents were submitted and the stored graphs have edges
C1_Witness ==
    /\ \A d \in Docs : Created(d)
    /\ \A j \in JobIds : Edges(jobs[j].def) # {}

(***************************************************************************)
(* C2: no dangling dependency: every task_key referenced by a depends_on   *)
(* entry of a job specification is the task_key of a task of the same      *)
(* specification.                                                          *)
(***************************************************************************)
C2_NoDanglingDependency ==
    \A j \in JobIds : \A t \in Range(TasksOf(DocText(jobs[j].doc))) :
        DependsOnOf(t) \subseteq Keys(DocText(jobs[j].doc))

\* a submitted job in which some task has a dependency
C2_Witness ==
    \E j \in JobIds : \E t \in Range(TasksOf(DocText(jobs[j].doc))) :
        DependsOnOf(t) # {}

(***************************************************************************)
(* C3: within each job specification the task_key values are pairwise      *)
(* distinct.                                                               *)
(***************************************************************************)
C3_UniqueTaskKeys ==
    \A j \in JobIds :
        LET ts == TasksOf(DocText(jobs[j].doc))
        IN  \A a, b \in DOMAIN ts :
                a # b => TaskKeysOf(ts[a]) \cap TaskKeysOf(ts[b]) = {}

\* a submitted job with more than one task, each with a key
C3_Witness ==
    \E j \in JobIds :
        LET ts == TasksOf(DocText(jobs[j].doc))
        IN  Len(ts) > 1 /\ \A a \in DOMAIN ts : TaskKeysOf(ts[a]) # {}

Placeheld == {"path", "warehouse_id", "git_url", "user_name"}

\* a document with the leaves written under a placeheld name blanked
RECURSIVE Skeleton(_, _)
Skeleton(node, name) ==
    [t |-> node.t,
     s |-> IF node.t = "str" /\ name \in Placeheld THEN "" ELSE node.s,
     c |-> [i \in 1..Len(node.c) |-> <<node.c[i][1], Skeleton(node.c[i][2], node.c[i][1])>>]]

SourcesOf(doc) == [i \in 1..Len(TasksOf(doc)) |-> SourceOf(TasksOf(doc)[i])]

(***************************************************************************)
(* C4: the templated specification is structurally isomorphic to the       *)
(* concrete one: same task keys in the same order, same depends_on edges,  *)
(* same field names at every level, same run_if and source values; the two *)
(* differ only in the leaf strings path, warehouse_id, git_url, user_name. *)
(***************************************************************************)
C4_Isomorphic ==
    \A i, j \in JobIds :
        (jobs[i].doc = "concrete" /\ jobs[j].doc = "templated") =>
            LET concrete  == DocText(jobs[i].doc)
                templated == DocText(jobs[j].doc)
            IN  /\ Skeleton(templated, "") = Skeleton(concrete, "")
                /\ KeySeq(templated) = KeySeq(concrete)
                /\ Edges(templated) = Edges(concrete)
                /\ RunIfs(templated) = RunIfs(concrete)
                /\ SourcesOf(templated) = SourcesOf(concrete)
                /\ templated # concrete

\* both documents were submitted and the stored definitions differ
C4_Witness ==
    \E i, j \in JobIds :
        /\ jobs[i].doc = "concrete" /\ jobs[j].doc = "templated"
        /\ jobs[i].def # jobs[j].def
        /\ Graph(jobs[i].def) = Graph(jobs[j].def)

(***************************************************************************)
(* C5: every task of either job specification has sql_task.file.source     *)
(* equal to "GIT" or "WORKSPACE".                                          *)
(***************************************************************************)
C5_SourceEnumerated ==
    \A j \in JobIds : \A t \in Range(TasksOf(DocText(jobs[j].doc))) :
        /\ SourceOf(t) # {}
        /\ SourceOf(t) \subseteq {"GIT", "WORKSPACE"}

\* a submitted job with a GIT task and a WORKSPACE task
C5_Witness ==
    \E j \in JobIds :
        LET ts == Range(TasksOf(DocText(jobs[j].doc)))
        IN  /\ \E t \in ts : SourceOf(t) = {"GIT"}
            /\ \E t \in ts : SourceOf(t) = {"WORKSPACE"}

HasGitTask(doc) == \E t \in Range(TasksOf(doc)) : "GIT" \in SourceOf(t)

HasGitSource(doc) ==
    \E g \in Range(Member(doc, "git_source")) :
        /\ g.t = "obj"
        /\ \A n \in {"git_url", "git_provider", "git_branch"} :
               \E v \in Range(Member(g, n)) : v.t = "str" /\ v.s # ""

(***************************************************************************)
(* C9: whenever a task of a job specification has source "GIT", the        *)
(* specification carries a git_source record with git_url, git_provider    *)
(* and git_branch.                                                         *)
(***************************************************************************)
C9_GitSourcePresent ==
    \A j \in JobIds :
        /\ HasGitTask(DocText(jobs[j].doc)) => HasGitSource(DocText(jobs[j].doc))
        /\ HasGitTask(jobs[j].def) => HasGitSource(jobs[j].def)

\* a stored job with a GIT task and its git_source record
C9_Witness == \E j \in JobIds : HasGitTask(jobs[j].def) /\ HasGitSource(jobs[j].def)

(***************************************************************************)
(* C6: round trip: decoding either document and encoding it again yields a *)
(* document with the same task graph: the same set of task keys, the same  *)
(* set of depends_on edges, the same run_if for every task.  The stored    *)
(* definition of a job is such a round trip of the document of its cell.   *)
(***************************************************************************)
C6_RoundTrip ==
    \A j \in JobIds :
        /\ Graph(Serialize(Parse(DocText(jobs[j].doc)))) = Graph(DocText(jobs[j].doc))
        /\ Graph(jobs[j].def) = Graph(DocText(jobs[j].doc))

\* a stored definition that is not written as its document is (the members
\* of an object are in another order) and has a graph with edges and run_if
C6_Witness ==
    \E j \in JobIds :
        /\ jobs[j].def # DocText(jobs[j].doc)
        /\ Graph(jobs[j].def).edges # {}
        /\ Graph(jobs[j].def).run_if # {}

Started(job, k) == job.starts[k] > 0

\* the tasks after position i of the chain
Downstream(i) == {Chain[m] : m \in {n \in DOMAIN Chain : n > i}}

(***************************************************************************)
(* C8: every task of both specifications has run_if ALL_SUCCESS, so in any *)
(* run a task starts only after every task it depends on has succeeded:    *)
(* Load_Data never starts before Create_Tables has succeeded,              *)
(* Query_Fact_Sales never before Load_Data has succeeded, no two tasks of  *)
(* the chain run at the same time, and no task downstream of a failed task *)
(* ever runs.                                                              *)
(***************************************************************************)
C8_AllSuccessOrdering ==
    \A j \in JobIds :
        LET job == jobs[j]
        IN  /\ \A t \in Range(TasksOf(DocText(job.doc))) : RunIfOf(t) = {"ALL_SUCCESS"}
            /\ DOMAIN job.status = Range(Chain)
            /\ \A e \in Edges(DocText(job.doc)) :
                   Started(job, e[1]) => job.status[e[2]] = "succeeded"
            /\ Started(job, "Load_Data") => job.status["Create_Tables"] = "succeeded"
            /\ Started(job, "Query_Fact_Sales") => job.status["Load_Data"] = "succeeded"
            /\ Cardinality({k \in DOMAIN job.status : job.status[k] = "running"}) <= 1
            /\ \A i \in DOMAIN Chain :
                   job.status[Chain[i]] = "failed" =>
                       \A k \in Downstream(i) :
                           ~Started(job, k) /\ job.status[k] \in {"pending", "skipped"}

\* a run in which Load_Data failed after Create_Tables succeeded, and
\* Query_Fact_Sales was skipped
C8_Witness ==
    \E j \in JobIds :
        /\ jobs[j].status["Create_Tables"] = "succeeded"
        /\ jobs[j].status["Load_Data"] = "failed"
        /\ jobs[j].status["Query_Fact_Sales"] = "skipped"

AllTerminal(job) == \A k \in DOMAIN job.status : job.status[k] \in Terminal

\* r has no dependencies and every other task depends on it, directly or not
IsRoot(graph, r) ==
    /\ r \in graph.keys
    /\ \A e \in graph.edges : e[1] # r
    /\ \A k \in graph.keys \ {r} : <<k, r>> \in TransitiveClosure(graph.edges)

\* the task graph of each document as written
ConcreteGraph == Graph(ConcreteJob)

TemplatedGraph == Graph(TemplatedJob)

DocGraph(d) == IF d = "concrete" THEN ConcreteGraph ELSE TemplatedGraph

IsPrefix(s, t) == Len(s) <= Len(t) /\ \A i \in DOMAIN s : s[i] = t[i]

\* the safety part of C10: no deadlock, at most one start, order of success
C10_Safety ==
    \A j \in JobIds :
        LET job == jobs[j]
        IN  /\ IsRoot(DocGraph(job.doc), "Create_Tables")
            /\ \A k \in DOMAIN job.status : job.starts[k] <= 1
            /\ (job.run = "active" /\ ~AllTerminal(job)) => ENABLED JobStep(j)
            /\ IsPrefix(job.order, Chain)
            /\ (AllTerminal(job) /\ \A k \in DOMAIN job.status : job.status[k] # "failed")
                   => job.order = Chain

(***************************************************************************)
(* C10: a run of the example job never deadlocks and always terminates:    *)
(* Create_Tables has no dependencies and every other task is reachable     *)
(* from it along depends_on edges; under fair scheduling every task of a   *)
(* triggered run eventually is succeeded, failed or skipped; each task     *)
(* runs at most once; and a run in which no task fails ends with all three *)
(* tasks succeeded in the order Create_Tables, Load_Data, Query_Fact_Sales.*)
(* Termination: from some point on every triggered run has all its tasks   *)
(* in a terminal state.                                                    *)
(***************************************************************************)
C10_Terminates ==
    /\ []C10_Safety
    /\ <>[](\A j \in JobIds : jobs[j].run = "active" => AllTerminal(jobs[j]))

\* a run of the concrete job that ended with its three tasks succeeded in order
C10_Witness ==
    \E j \in JobIds :
        /\ jobs[j].doc = "concrete"
        /\ jobs[j].order = Chain
        /\ AllTerminal(jobs[j])
        /\ \A k \in DOMAIN jobs[j].starts : jobs[j].starts[k] = 1

=============================================================================
